---- MODULE Spec2Model ----
(***************************************************************************)
(* A model of the two heuristic document parsers of AI-Career-Copilot:     *)
(* JobParser (src/src/parsers/job_parser.py) and ResumeParser              *)
(* (src/src/parsers/resume_parser.py).                                     *)
(*                                                                         *)
(* Texts are TLA+ strings, which are sequences of characters: Len, SubSeq  *)
(* and \o act on them as Python's len, slicing and + act on str.  The      *)
(* regular expressions of the source are kept as syntax trees and matched  *)
(* by a backtracking matcher with the priorities of Python's re module.    *)
(* The alphabet is ASCII.                                                  *)
(***************************************************************************)
EXTENDS Integers, Sequences, FiniteSets, TLC

VARIABLES
    pc,            \* "call": arguments chosen, the call not yet made; "done": it returned
    op,            \* the function that was called ("none" before the call)
    text,          \* the str argument of the call
    requirements,  \* _classify_requirements: the requirements argument
    nice_to_have,  \* _classify_requirements: the nice_to_have argument
    result,        \* the value the call returned, or the exception it raised
    file,          \* parse_file: the file the file_path argument names
    log,           \* parse_file: the methods it has called so far, in order
    self,          \* the parser instance the methods are called on: its fields
    frames         \* concurrent calls: the local variables of each call in progress

vars == <<pc, op, text, requirements, nice_to_have, result, file, log, self, frames>>

(***************************************************************************)
(* Characters and str methods                                              *)
(***************************************************************************)
Char(s, i) == SubSeq(s, i, i)

CharsOf(s) == {Char(s, i) : i \in 1..Len(s)}

UpperChars == "ABCDEFGHIJKLMNOPQRSTUVWXYZ"
LowerChars == "abcdefghijklmnopqrstuvwxyz"
DigitChars == "0123456789"

Upper == CharsOf(UpperChars)
Lower == CharsOf(LowerChars)
Digit == CharsOf(DigitChars)

\* re: \w, \s (ASCII)
WordChars == Upper \cup Lower \cup Digit \cup {"_"}
SpaceChars == {" ", "\t", "\n", "\r", "\f"}

LowerMap == [c \in Upper |-> Char(LowerChars, CHOOSE i \in 1..26 : Char(UpperChars, i) = c)]
UpperMap == [c \in Lower |-> Char(UpperChars, CHOOSE i \in 1..26 : Char(LowerChars, i) = c)]

LowerChar(c) == IF c \in Upper THEN LowerMap[c] ELSE c
UpperChar(c) == IF c \in Lower THEN UpperMap[c] ELSE c

\* str.lower()
RECURSIVE StrLower(_)
StrLower(s) ==
    IF Len(s) = 0 THEN ""
    ELSE IF Len(s) = 1 THEN LowerChar(s)
    ELSE StrLower(SubSeq(s, 1, Len(s) \div 2)) \o StrLower(SubSeq(s, Len(s) \div 2 + 1, Len(s)))

\* str.strip(): s without its leading and trailing whitespace
RECURSIVE LStrip(_)
LStrip(s) == IF s # "" /\ Head(s) \in SpaceChars THEN LStrip(Tail(s)) ELSE s

RECURSIVE RStrip(_)
RStrip(s) ==
    IF s # "" /\ Char(s, Len(s)) \in SpaceChars THEN RStrip(SubSeq(s, 1, Len(s) - 1)) ELSE s

Strip(s) == RStrip(LStrip(s))

\* Python's `sub in s`
Contains(sub, s) ==
    \E i \in 1..(Len(s) - Len(sub) + 1) : SubSeq(s, i, i + Len(sub) - 1) = sub

\* text[a:b] with 0-based Python offsets a <= b
Slice(s, a, b) == SubSeq(s, a + 1, b)

(***************************************************************************)
(* TextNormalizer: JobParser._clean_text and ResumeParser._clean_text      *)
(***************************************************************************)
\* the characters the class [^\w\s@.\-+(),:;] does not match
AllowedChars == WordChars \cup SpaceChars \cup {"@", ".", "-", "+", "(", ")", ",", ":", ";"}

\* re.sub(r'[^\w\s@.\-+(),:;]', ' ', s): every character outside the class
\* becomes a space
RECURSIVE SubSpecialChars(_)
SubSpecialChars(s) ==
    IF Len(s) = 0 THEN ""
    ELSE IF Len(s) = 1 THEN (IF s \in AllowedChars THEN s ELSE " ")
    ELSE SubSpecialChars(SubSeq(s, 1, Len(s) \div 2))
            \o SubSpecialChars(SubSeq(s, Len(s) \div 2 + 1, Len(s)))

\* what re.sub(r'\s+', ' ', s) puts for the characters lo..hi of s: a
\* character that is no whitespace stays, the first character of a run of
\* whitespace becomes the space of the run, the others of the run go
RECURSIVE SubWhitespaceIn(_, _, _)
SubWhitespaceIn(s, lo, hi) ==
    IF lo > hi THEN ""
    ELSE IF lo = hi
    THEN (IF Char(s, lo) \notin SpaceChars THEN Char(s, lo)
          ELSE IF lo > 1 /\ Char(s, lo - 1) \in SpaceChars THEN ""
          ELSE " ")
    ELSE SubWhitespaceIn(s, lo, (lo + hi) \div 2)
            \o SubWhitespaceIn(s, (lo + hi) \div 2 + 1, hi)

\* re.sub(r'\s+', ' ', s)
SubWhitespace(s) == SubWhitespaceIn(s, 1, Len(s))

JobParser_clean_text(t) == Strip(SubWhitespace(SubSpecialChars(t)))

ResumeParser_clean_text(t) == Strip(SubSpecialChars(SubWhitespace(t)))

(***************************************************************************)
(* Inputs                                                                  *)
(***************************************************************************)
\* the strings of length n over the characters of alphabet
RECURSIVE StringsOfLen(_, _)
StringsOfLen(alphabet, n) ==
    IF n = 0 THEN {""}
    ELSE {s \o c : s \in StringsOfLen(alphabet, n - 1), c \in alphabet}

StringsUpTo(alphabet, n) == UNION {StringsOfLen(alphabet, k) : k \in 0..n}

\* normalizer inputs: a word character, two kinds of whitespace, an allowed
\* punctuation mark and two characters outside the allow-list
MaxCleanLen == 4
CleanAlphabet == {"a", " ", "\n", ".", "#", "!"}
CleanTexts == StringsUpTo(CleanAlphabet, MaxCleanLen)

(***************************************************************************)
(* The normalizers called on their own                                     *)
(***************************************************************************)
\* __init__: self.nlp = None, then _load_nlp_model sets it to the loaded model
Constructed == [nlp |-> "en_core_web_sm"]

\* no file argument
NoFile == [name |-> "", exists |-> FALSE, readable |-> FALSE, content |-> ""]

InitArgs(texts, reqLists, niceLists) ==
    /\ pc = "call"
    /\ op = "none"
    /\ text \in texts
    /\ requirements \in reqLists
    /\ nice_to_have \in niceLists
    /\ result = ""
    /\ file = NoFile
    /\ log = <<>>
    /\ self = Constructed
    /\ frames = <<>>

JobCleanText ==
    /\ pc = "call"
    /\ pc' = "done"
    /\ op' = "JobParser._clean_text"
    /\ result' = JobParser_clean_text(text)
    /\ UNCHANGED <<text, requirements, nice_to_have, file, log, self, frames>>

ResumeCleanText ==
    /\ pc = "call"
    /\ pc' = "done"
    /\ op' = "ResumeParser._clean_text"
    /\ result' = ResumeParser_clean_text(text)
    /\ UNCHANGED <<text, requirements, nice_to_have, file, log, self, frames>>

InitClean == InitArgs(CleanTexts, {<<>>}, {<<>>})

NextClean == JobCleanText \/ ResumeCleanText

SpecClean == InitClean /\ [][NextClean]_vars

IsCleanCall == pc = "done" /\ op \in {"JobParser._clean_text", "ResumeParser._clean_text"}

Normalize(name, s) ==
    IF name = "JobParser._clean_text" THEN JobParser_clean_text(s) ELSE ResumeParser_clean_text(s)

\* C1: normalizing the output of either normalizer again gives the same string
C1_Idempotent == IsCleanCall => Normalize(op, result) = result

\* C2: the output of either normalizer has no two consecutive spaces, no
\* character outside the allow-list and no leading or trailing whitespace
C2_CleanOutput ==
    IsCleanCall =>
        /\ ~Contains("  ", result)
        /\ CharsOf(result) \subseteq (AllowedChars \ (SpaceChars \ {" "}))
        /\ Strip(result) = result

(***************************************************************************)
(* RequirementClassifier: JobParser._classify_requirements                 *)
(***************************************************************************)
must_have_indicators ==
    << "required", "must have", "essential", "mandatory", "minimum",
       "bachelor", "degree", "years of experience", "experience with",
       "proficient", "strong knowledge", "demonstrated experience" >>

nice_to_have_indicators ==
    << "preferred", "nice to have", "bonus", "plus", "ideal",
       "would be great", "advantage", "desirable", "beneficial" >>

\* any(indicator in req_lower for indicator in indicators)
AnyIndicator(indicators, req_lower) ==
    \E k \in 1..Len(indicators) : Contains(indicators[k], req_lower)

is_must_have(req) == AnyIndicator(must_have_indicators, StrLower(req))

is_nice_to_have(req) == AnyIndicator(nice_to_have_indicators, StrLower(req))

\* a mutant: every line with a nice-to-have indicator is optional
ClassifyBranch_NiceWins(req) ==
    IF is_nice_to_have(req) THEN "nice_to_have" ELSE "must_have"

\* the if / elif / else of the loop body: the list req is appended to
ClassifyBranch(req) ==
    IF is_nice_to_have(req) /\ ~is_must_have(req) THEN "nice_to_have"
    ELSE IF is_must_have(req) \/ ~is_nice_to_have(req) THEN "must_have"
    ELSE "must_have"

InSeq(x, seq) == \E k \in 1..Len(seq) : seq[k] = x

\* a mutant: the last occurrence of each item is the one kept
DictFromKeys_KeepLast(seq) ==
    LET kept == {i \in 1..Len(seq) : \A j \in (i + 1)..Len(seq) : seq[j] # seq[i]}
    IN  [k \in 1..Cardinality(kept) |->
            seq[CHOOSE i \in kept : Cardinality({j \in kept : j <= i}) = k]]

\* list(dict.fromkeys(seq)): the first occurrence of each item, in order
RECURSIVE DictFromKeys(_)
DictFromKeys(seq) ==
    IF seq = <<>> THEN <<>>
    ELSE LET init == DictFromKeys(SubSeq(seq, 1, Len(seq) - 1))
             last == seq[Len(seq)]
         IN  IF InSeq(last, init) THEN init ELSE Append(init, last)

\* the items of reqs that the loop appends to the list named branch
RECURSIVE AppendedTo(_, _)
AppendedTo(branch, reqs) ==
    IF reqs = <<>> THEN <<>>
    ELSE (IF ClassifyBranch(Head(reqs)) = branch THEN <<Head(reqs)>> ELSE <<>>)
         \o AppendedTo(branch, Tail(reqs))

JobParser_classify_requirements(reqs, nice, full_text) ==
    [ must_have    |-> DictFromKeys(AppendedTo("must_have", reqs)),
      nice_to_have |-> DictFromKeys(nice \o AppendedTo("nice_to_have", reqs)) ]

\* the sequences of length at most n over the set S
SeqsUpTo(S, n) == UNION {[1..k -> S] : k \in 0..n}

\* requirement lines: a must-have indicator only, a nice-to-have indicator
\* only, both, neither
MaxReqs == 2
MaxNice == 2
ReqLines == {"Must have SQL", "React is a plus", "Degree preferred", "Team player"}

ClassifyRequirements ==
    /\ pc = "call"
    /\ pc' = "done"
    /\ op' = "JobParser._classify_requirements"
    /\ result' = JobParser_classify_requirements(requirements, nice_to_have, text)
    /\ UNCHANGED <<text, requirements, nice_to_have, file, log, self, frames>>

InitClassify == InitArgs({""}, SeqsUpTo(ReqLines, MaxReqs), SeqsUpTo(ReqLines, MaxNice))

NextClassify == ClassifyRequirements

SpecClassify == InitClassify /\ [][NextClassify]_vars

IsClassifyCall == pc = "done" /\ op = "JobParser._classify_requirements"

\* C3: no string is both in the returned must_have list and in the returned
\* nice_to_have list
C3_Disjoint ==
    IsClassifyCall =>
        \A i \in 1..Len(result.must_have) : ~InSeq(result.must_have[i], result.nice_to_have)

\* the lower-cased line contains an indicator of the list
HasIndicator(indicators, line) ==
    \E k \in 1..Len(indicators), i \in 1..Len(line) :
        /\ i + Len(indicators[k]) - 1 <= Len(line)
        /\ \A j \in 1..Len(indicators[k]) :
              LowerChar(Char(line, i + j - 1)) = Char(indicators[k], j)

NiceOnly(line) ==
    HasIndicator(nice_to_have_indicators, line) /\ ~HasIndicator(must_have_indicators, line)

\* C4: a requirement line is classified nice-to-have exactly when it holds a
\* nice-to-have indicator and no must-have indicator, and must-have in the
\* three other cases: it is in must_have iff it is not nice-only, a nice-only
\* line is in nice_to_have, and a line of nice_to_have that was not given as
\* an explicit nice-to-have item is nice-only; a line with "must have" and no
\* nice-to-have indicator is in must_have
C4_TieBreak ==
    IsClassifyCall =>
        /\ \A k \in 1..Len(requirements) :
              LET req == requirements[k] IN
              /\ InSeq(req, result.must_have) <=> ~NiceOnly(req)
              /\ NiceOnly(req) => InSeq(req, result.nice_to_have)
              /\ (Contains("must have", StrLower(req))
                    /\ ~HasIndicator(nice_to_have_indicators, req))
                 => InSeq(req, result.must_have)
        /\ \A k \in 1..Len(result.nice_to_have) :
              LET item == result.nice_to_have[k] IN
              InSeq(item, nice_to_have) \/ (InSeq(item, requirements) /\ NiceOnly(item))

\* a call that classified a line with both kinds of indicator, a nice-only
\* line and a line with "must have" only
C4_Witness ==
    /\ IsClassifyCall
    /\ requirements = <<"Degree preferred", "React is a plus">>
    /\ nice_to_have = <<"Must have SQL">>
    /\ result.must_have = <<"Degree preferred">>
    /\ result.nice_to_have = <<"Must have SQL", "React is a plus">>

(***************************************************************************)
(* Regular expressions (Python's re): syntax trees and a backtracking      *)
(* matcher.  Offsets in match records are Python's 0-based offsets.        *)
(***************************************************************************)
Inf == 0 - 1

Lit(str) == [t |-> "lit", s |-> str]                   \* literal characters
Set(chars) == [t |-> "set", s |-> chars, neg |-> FALSE]   \* [...]
NotSet(chars) == [t |-> "set", s |-> chars, neg |-> TRUE] \* [^...]
Dot == NotSet({"\n"})                                  \* .
Cat(xs) == [t |-> "cat", xs |-> xs]                    \* x1 x2 ...
Alt(xs) == [t |-> "alt", xs |-> xs]                    \* x1|x2|...
Rep(x, min, max) == [t |-> "rep", x |-> x, min |-> min, max |-> max]  \* x{min,max}, greedy
Opt(x) == Rep(x, 0, 1)                                 \* x?
Star(x) == Rep(x, 0, Inf)                              \* x*
Plus(x) == Rep(x, 1, Inf)                              \* x+
Grp(n, x) == [t |-> "grp", n |-> n, x |-> x]           \* capturing group number n
GrpEnd(n, from) == [t |-> "end", n |-> n, from |-> from]
WB == [t |-> "wb"]                                     \* \b
BOL(multiline) == [t |-> "bol", m |-> multiline]       \* ^
LookAhead(x) == [t |-> "la", x |-> x]                  \* (?=x)

MaxGroups == 2
NoGroup == <<Inf, Inf>>
NoCaps == [n \in 1..MaxGroups |-> NoGroup]
NoMatch == [ok |-> FALSE, start |-> 0, end |-> 0, caps |-> NoCaps]

\* character c against literal character l
CharEq(c, l, ic) == IF ic THEN LowerChar(c) = LowerChar(l) ELSE c = l

\* character c against a character class
InSet(c, r, ic) ==
    LET in == IF ic THEN c \in r.s \/ LowerChar(c) \in r.s \/ UpperChar(c) \in r.s
              ELSE c \in r.s
    IN  in # r.neg

\* s holds the literal str at 1-based position pos
LitAt(s, pos, str, ic) ==
    /\ pos + Len(str) - 1 <= Len(s)
    /\ \A j \in 1..Len(str) : CharEq(Char(s, pos + j - 1), Char(str, j), ic)

SetMax(S) == CHOOSE x \in S : \A y \in S : x >= y
SetMin(S) == CHOOSE x \in S : \A y \in S : x <= y

\* the number of characters of class r, at most max of them, that s holds
\* from 1-based position pos on
ClassRun(s, pos, r, ic, max) ==
    LET left == Len(s) - pos + 1
        limit == IF max = Inf \/ max > left THEN left ELSE max
        stops == {j \in 0..(limit - 1) : ~InSet(Char(s, pos + j), r, ic)}
    IN  IF stops = {} THEN limit ELSE CHOOSE j \in stops : \A i \in stops : j <= i

IsWordAt(s, pos) == pos >= 1 /\ pos <= Len(s) /\ Char(s, pos) \in WordChars

\* The nodes of stack matched one after the other from 1-based position pos
\* of s; the first success in the order a backtracking matcher tries them
\* (alternatives left to right, repetitions greedy).  end is 1-based,
\* exclusive.
RECURSIVE MatchK(_, _, _, _, _)
RECURSIVE TryAlts(_, _, _, _, _, _, _)
MatchK(stack, s, ic, pos, caps) ==
    IF stack = <<>> THEN [ok |-> TRUE, start |-> pos, end |-> pos, caps |-> caps]
    ELSE
    LET r == Head(stack)
        rest == Tail(stack)
    IN  CASE r.t = "lit" ->
               IF LitAt(s, pos, r.s, ic) THEN MatchK(rest, s, ic, pos + Len(r.s), caps)
               ELSE NoMatch
          [] r.t = "set" ->
               IF pos <= Len(s) /\ InSet(Char(s, pos), r, ic)
               THEN MatchK(rest, s, ic, pos + 1, caps)
               ELSE NoMatch
          [] r.t = "cat" -> MatchK(r.xs \o rest, s, ic, pos, caps)
          [] r.t = "alt" -> TryAlts(r.xs, 1, rest, s, ic, pos, caps)
          [] r.t = "rep" /\ r.x.t = "set" ->
               \* a repeated character class: the longest run of at most max
               \* characters after which the rest matches
               LET run == ClassRun(s, pos, r.x, ic, r.max)
                   good == {k \in r.min..run : MatchK(rest, s, ic, pos + k, caps).ok}
               IN  IF good = {} THEN NoMatch
                   ELSE MatchK(rest, s, ic, pos + SetMax(good), caps)
          [] r.t = "rep" /\ r.x.t # "set" ->
               LET again == Rep(r.x, IF r.min > 0 THEN r.min - 1 ELSE 0,
                                     IF r.max = Inf THEN Inf ELSE r.max - 1)
                   more == IF r.max = 0 THEN NoMatch
                           ELSE MatchK(<<r.x, again>> \o rest, s, ic, pos, caps)
               IN  IF more.ok THEN more
                   ELSE IF r.min = 0 THEN MatchK(rest, s, ic, pos, caps)
                   ELSE NoMatch
          [] r.t = "grp" -> MatchK(<<r.x, GrpEnd(r.n, pos)>> \o rest, s, ic, pos, caps)
          [] r.t = "end" ->
               MatchK(rest, s, ic, pos, [caps EXCEPT ![r.n] = <<r.from, pos>>])
          [] r.t = "wb" ->
               IF IsWordAt(s, pos - 1) # IsWordAt(s, pos)
               THEN MatchK(rest, s, ic, pos, caps)
               ELSE NoMatch
          [] r.t = "bol" ->
               IF pos = 1 \/ (r.m /\ Char(s, pos - 1) = "\n")
               THEN MatchK(rest, s, ic, pos, caps)
               ELSE NoMatch
          [] r.t = "la" ->
               IF MatchK(<<r.x>>, s, ic, pos, caps).ok
               THEN MatchK(rest, s, ic, pos, caps)
               ELSE NoMatch

TryAlts(xs, k, rest, s, ic, pos, caps) ==
    IF k > Len(xs) THEN NoMatch
    ELSE LET m == MatchK(<<xs[k]>> \o rest, s, ic, pos, caps)
         IN  IF m.ok THEN m ELSE TryAlts(xs, k + 1, rest, s, ic, pos, caps)

\* the match record m of MatchK at 0-based offset at, with 0-based offsets
ZeroBased(m, at) ==
    IF m.ok
    THEN [ok |-> TRUE, start |-> at, end |-> m.end - 1,
          caps |-> [n \in 1..MaxGroups |->
                      IF m.caps[n] = NoGroup THEN NoGroup
                      ELSE <<m.caps[n][1] - 1, m.caps[n][2] - 1>>]]
    ELSE NoMatch

\* pattern.match at 0-based offset at: the match record with 0-based offsets
MatchAt(r, s, ic, at) == ZeroBased(MatchK(<<r>>, s, ic, at + 1, NoCaps), at)

\* the match m if it is one, else the match other
OrElse(m, other) == IF m.ok THEN m ELSE other

\* the match at the least of the offsets hits, no match without an offset
LeftmostMatch(r, s, ic, hits) ==
    IF hits = {} THEN NoMatch ELSE MatchAt(r, s, ic, SetMin(hits))

\* re.search(r, s, pos=from): the match at the leftmost offset >= from
SearchFrom(r, s, ic, from) ==
    LeftmostMatch(r, s, ic, {at \in from..Len(s) : MatchAt(r, s, ic, at).ok})

\* re.search(r, s, flags)
Search(r, s, ic) == SearchFrom(r, s, ic, 0)

\* match.group(): the text matched; match.group(n): the text of group n
GroupAll(s, m) == Slice(s, m.start, m.end)
Group(s, m, n) == Slice(s, m.caps[n][1], m.caps[n][2])

\* re.finditer(r, s, flags): the non-overlapping matches, left to right
RECURSIVE FindIterFrom(_, _, _, _)
\* the match m and the matches after it
MatchesFrom(r, s, ic, m) ==
    IF ~m.ok THEN <<>>
    ELSE <<m>> \o FindIterFrom(r, s, ic, IF m.end > m.start THEN m.end ELSE m.end + 1)

FindIterFrom(r, s, ic, from) == MatchesFrom(r, s, ic, SearchFrom(r, s, ic, from))

FindIter(r, s, ic) == FindIterFrom(r, s, ic, 0)

(***************************************************************************)
(* SectionSegmenter: JobParser._extract_sections and                       *)
(* ResumeParser._extract_sections                                          *)
(***************************************************************************)
\* word followed by an optional s, as in requirements?
OptS(word) == Cat(<<Lit(word), Opt(Lit("s"))>>)

\* section_patterns of JobParser._extract_sections, in the dict's order
JobSectionPatterns ==
    << [name |-> "requirements",
        pattern |-> Grp(1, Alt(<<OptS("requirement"), OptS("qualification"),
                                 Cat(<<Lit("what we"), Dot, Lit("re looking for")>>),
                                 Lit("must have")>>))],
       [name |-> "responsibilities",
        pattern |-> Grp(1, Alt(<<Cat(<<Lit("responsibilitie"), Opt(Lit("s"))>>), Lit("duties"),
                                 Cat(<<Lit("what you"), Dot, Lit("ll do")>>),
                                 Lit("role"), Lit("position")>>))],
       [name |-> "benefits",
        pattern |-> Grp(1, Alt(<<OptS("benefit"), Lit("perks"), Lit("what we offer"),
                                 Lit("compensation")>>))],
       [name |-> "about",
        pattern |-> Grp(1, Alt(<<Lit("about"), Lit("company"), Lit("who we are")>>))],
       [name |-> "nice_to_have",
        pattern |-> Grp(1, Alt(<<Lit("nice to have"), Lit("preferred"), Lit("bonus"),
                                 Lit("plus")>>))] >>

\* section_patterns of ResumeParser._extract_sections, in the dict's order
ResumeSectionPatterns ==
    << [name |-> "summary",
        pattern |-> Grp(1, Alt(<<Lit("summary"), Lit("profile"), Lit("objective"),
                                 Lit("about"), Lit("overview")>>))],
       [name |-> "experience",
        pattern |-> Grp(1, Alt(<<Lit("experience"), Lit("employment"), Lit("work"),
                                 Lit("professional"), Lit("career")>>))],
       [name |-> "education",
        pattern |-> Grp(1, Alt(<<Lit("education"), Lit("academic"), Lit("qualification"),
                                 Lit("degree")>>))],
       [name |-> "skills",
        pattern |-> Grp(1, Alt(<<Lit("skills"), Lit("competencies"), Lit("technical"),
                                 Lit("technologies"), Lit("expertise")>>))],
       [name |-> "projects",
        pattern |-> Grp(1, Alt(<<Lit("projects"), Lit("portfolio"), Lit("work samples")>>))],
       [name |-> "certifications",
        pattern |-> Grp(1, Alt(<<OptS("certification"), OptS("certificate"),
                                 OptS("license")>>))] >>

\* f'{pattern}[:\\s]*'
HeaderPattern(pattern) == Cat(<<pattern, Star(Set({":"} \cup SpaceChars))>>)

SeqMin(seq) == CHOOSE x \in {seq[k] : k \in 1..Len(seq)} : \A k \in 1..Len(seq) : x <= seq[k]

\* the next_sections list built for the section at index i, whose content
\* starts at start_pos: the offset of the first match of every pattern that
\* stops a section.  The test `other_pattern != pattern` compares pattern
\* strings, which are pairwise different, so it is a test on the index.
RECURSIVE NextSections(_, _, _, _, _)
NextSections(section_patterns, stops, t, start_pos, j) ==
    IF j > Len(section_patterns) THEN <<>>
    ELSE LET next_match == Search(section_patterns[j].pattern, Slice(t, start_pos, Len(t)), TRUE)
         IN  (IF j \in stops /\ next_match.ok
              THEN <<start_pos + next_match.start>> ELSE <<>>)
             \o NextSections(section_patterns, stops, t, start_pos, j + 1)

\* a mutant: a later occurrence of the section's own header ends it too
OtherPatterns_Any(section_patterns, i) == 1..Len(section_patterns)

\* the indices of the patterns with other_pattern != pattern
OtherPatterns(section_patterns, i) == (1..Len(section_patterns)) \ {i}

\* the value of sections[section_name] for the section at index i whose
\* header matched with match
SectionContent(section_patterns, t, i, match) ==
    LET start_pos == match.end
        next_sections == NextSections(section_patterns, OtherPatterns(section_patterns, i),
                                      t, start_pos, 1)
    IN  IF next_sections # <<>>
        THEN Strip(Slice(t, start_pos, SeqMin(next_sections)))
        ELSE Strip(Slice(t, start_pos, Len(t)))

HeaderMatch(section_patterns, t, i) ==
    Search(HeaderPattern(section_patterns[i].pattern), t, TRUE)

\* a mutant: every section name is a key, "" when its header did not match
ExtractSections_AllKeys(section_patterns, t) ==
    [ name \in {section_patterns[i].name : i \in 1..Len(section_patterns)} |->
        LET i == CHOOSE i \in 1..Len(section_patterns) : section_patterns[i].name = name
            match == HeaderMatch(section_patterns, t, i)
        IN  IF match.ok THEN SectionContent(section_patterns, t, i, match) ELSE "" ]

\* the sections dict: a key for every section whose header matched
ExtractSections(section_patterns, t) ==
    LET matched == {i \in 1..Len(section_patterns) : HeaderMatch(section_patterns, t, i).ok}
    IN  [ name \in {section_patterns[i].name : i \in matched} |->
            LET i == CHOOSE i \in 1..Len(section_patterns) : section_patterns[i].name = name
            IN  SectionContent(section_patterns, t, i, HeaderMatch(section_patterns, t, i)) ]

JobParser_extract_sections(t) == ExtractSections(JobSectionPatterns, t)

ResumeParser_extract_sections(t) == ExtractSections(ResumeSectionPatterns, t)

\* dict.get(key, default)
DictGet(dict, key, default) == IF key \in DOMAIN dict THEN dict[key] ELSE default

\* the texts made of at most n of the fragments, one after the other
RECURSIVE Concats(_, _)
Concats(fragments, n) ==
    IF n = 0 THEN {""}
    ELSE {""} \cup {f \o s : f \in fragments, s \in Concats(fragments, n - 1)}

\* segmenter inputs: headers of the job parser, of the resume parser and of
\* both ("About"), with content, without content, and text with no header
MaxSectionFrags == 3
SectionFragments ==
    {"Benefits: QA ", "Plus Go ", "Skills: C ", "Degree\n", "About ", "x "}
SectionTexts == Concats(SectionFragments, MaxSectionFrags)

JobExtractSections ==
    /\ pc = "call"
    /\ pc' = "done"
    /\ op' = "JobParser._extract_sections"
    /\ result' = JobParser_extract_sections(text)
    /\ UNCHANGED <<text, requirements, nice_to_have, file, log, self, frames>>

ResumeExtractSections ==
    /\ pc = "call"
    /\ pc' = "done"
    /\ op' = "ResumeParser._extract_sections"
    /\ result' = ResumeParser_extract_sections(text)
    /\ UNCHANGED <<text, requirements, nice_to_have, file, log, self, frames>>

InitSections == InitArgs(SectionTexts, {<<>>}, {<<>>})

NextSegment == JobExtractSections \/ ResumeExtractSections

SpecSections == InitSections /\ [][NextSegment]_vars

IsSectionsCall ==
    pc = "done" /\ op \in {"JobParser._extract_sections", "ResumeParser._extract_sections"}

PatternsOf(name) ==
    IF name = "JobParser._extract_sections" THEN JobSectionPatterns ELSE ResumeSectionPatterns

\* the header pattern with index i matches t at 0-based offset p
HeaderAt(patterns, i, t, p) == MatchAt(patterns[i].pattern, t, TRUE, p).ok

\* the offsets where the header with index i matches
HeaderOffsets(patterns, i, t) == {p \in 0..Len(t) : HeaderAt(patterns, i, t, p)}


\* where the content of section i starts: right after its first header match
\* and the colons and whitespace that follow it
ContentStart(patterns, i, t) ==
    MatchAt(HeaderPattern(patterns[i].pattern), t, TRUE, SetMin(HeaderOffsets(patterns, i, t))).end

\* where it ends: the smallest offset, at or after its start, where the header
\* of another section matches; the end of the text without one
ContentEnd(patterns, i, t) ==
    LET from == ContentStart(patterns, i, t)
        stops == {p \in from..Len(t) :
                     \E j \in (1..Len(patterns)) \ {i} : HeaderAt(patterns, j, t, p)}
    IN  IF stops = {} THEN Len(t) ELSE SetMin(stops)

\* C5: the value of every returned section is the trimmed text from right
\* after its first header match (with the colons and whitespace after it) to
\* the first match, at or after that point, of the header of any OTHER
\* section, or to the end of the text; its own header does not end it
C5_SectionSpan ==
    IsSectionsCall =>
        \A i \in 1..Len(PatternsOf(op)) :
            PatternsOf(op)[i].name \in DOMAIN result =>
                result[PatternsOf(op)[i].name] =
                    Strip(Slice(text, ContentStart(PatternsOf(op), i, text),
                                      ContentEnd(PatternsOf(op), i, text)))

\* a section whose own header occurs again before the header of another
\* section: it runs over its own header up to the other one
C5_Witness ==
    /\ IsSectionsCall
    /\ op = "ResumeParser._extract_sections"
    /\ text = "Skills: C Skills: C Degree\n"
    /\ result.skills = "C Skills: C"
    /\ result.education = ""

\* C6: a section name is a key of the returned map iff its header pattern
\* matches somewhere in the text; with no header at all the map is empty
C6_KeyIffHeader ==
    IsSectionsCall =>
        /\ \A i \in 1..Len(PatternsOf(op)) :
              PatternsOf(op)[i].name \in DOMAIN result
                  <=> HeaderOffsets(PatternsOf(op), i, text) # {}
        /\ DOMAIN result \subseteq {PatternsOf(op)[i].name : i \in 1..Len(PatternsOf(op))}
        /\ (\A i \in 1..Len(PatternsOf(op)) : HeaderOffsets(PatternsOf(op), i, text) = {})
              => result = <<>>

\* a header with empty content gives a key, a header that is absent gives
\* none
C6_Witness ==
    /\ IsSectionsCall
    /\ op = "JobParser._extract_sections"
    /\ text = "x About Plus Go "
    /\ DOMAIN result = {"about", "nice_to_have"}
    /\ result.about = ""

\* a text without any header gives the empty map
C6_WitnessEmpty ==
    /\ IsSectionsCall
    /\ text = "x x "
    /\ DOMAIN result = {}

(***************************************************************************)
(* Optional values, lists and sets                                         *)
(***************************************************************************)
\* Optional[str]: None, or a one-element tuple holding the string
None == <<>>
Some(x) == <<x>>

\* the k-th least element of the set S of numbers
Nth(S, k) == CHOOSE i \in S : Cardinality({j \in S : j < i}) = k - 1

\* the pieces of s between the positions cuts, of which there are n
PiecesBetween(s, cuts, n) ==
    [ k \in 1..(n + 1) |->
        SubSeq(s, IF k = 1 THEN 1 ELSE Nth(cuts, k - 1) + 1,
                  IF k = n + 1 THEN Len(s) ELSE Nth(cuts, k) - 1) ]

\* the positions of s that hold a character of seps
SepPositions(s, seps) == {i \in 1..Len(s) : Char(s, i) \in seps}

\* re.split on a class of single characters / str.split(sep)
SplitAt(s, cuts) == PiecesBetween(s, cuts, Cardinality(cuts))

Split(s, seps) == SplitAt(s, SepPositions(s, seps))

\* s without its leading characters of chars: re.sub(r'^[chars]*', '', s)
RECURSIVE LStripChars(_, _)
LStripChars(s, chars) ==
    IF s # "" /\ Head(s) \in chars THEN LStripChars(Tail(s), chars) ELSE s

\* s without its trailing characters of chars: re.sub(r'[chars]*$', '', s)
\* on a string that does not end with a newline
RECURSIVE RStripChars(_, _)
RStripChars(s, chars) ==
    IF s # "" /\ Char(s, Len(s)) \in chars
    THEN RStripChars(SubSeq(s, 1, Len(s) - 1), chars) ELSE s

\* the elements of a list, as a set
SetOf(seq) == {seq[k] : k \in 1..Len(seq)}

\* list(S) for a set S: the elements in the order the set iterates them,
\* which for strings depends on the hash seed of the run, so any order
Orderings(S) ==
    {seq \in [1..Cardinality(S) -> S] :
        \A i, j \in 1..Cardinality(S) : i # j => seq[i] # seq[j]}

\* sep.join(seq)
RECURSIVE Join(_, _)
Join(sep, seq) ==
    IF seq = <<>> THEN ""
    ELSE IF Len(seq) = 1 THEN seq[1]
    ELSE seq[1] \o sep \o Join(sep, Tail(seq))

(***************************************************************************)
(* JobParser._extract_requirements, JobParser._extract_responsibilities    *)
(***************************************************************************)
\* the characters of [\n-] (the bullet of the class is outside ASCII)
BulletSeparators == {"\n", "-"}

\* one pass of the cleaning loop: strip, drop the leading [-\s]*, drop the
\* trailing [.:\s]*
CleanItem(item) ==
    RStripChars(LStripChars(Strip(item), {"-"} \cup SpaceChars), {".", ":"} \cup SpaceChars)

\* if req and len(req) > 5
KeepItem(item) == item # "" /\ Len(item) > 5

RECURSIVE CleanedItems(_)
CleanedItems(items) ==
    IF items = <<>> THEN <<>>
    ELSE (IF KeepItem(CleanItem(Head(items))) THEN <<CleanItem(Head(items))>> ELSE <<>>)
         \o CleanedItems(Tail(items))

JobParser_extract_requirements(requirements_text) ==
    IF requirements_text = "" THEN <<>>
    ELSE CleanedItems(Split(requirements_text, BulletSeparators))

JobParser_extract_responsibilities(responsibilities_text) ==
    IF responsibilities_text = "" THEN <<>>
    ELSE CleanedItems(Split(responsibilities_text, BulletSeparators))

(***************************************************************************)
(* PatternTagger: JobParser._extract_skills                                *)
(***************************************************************************)
\* \bword\b
Word(word) == Cat(<<WB, Lit(word), WB>>)

\* skill_categories, in the dict's order
skill_categories ==
    << [name |-> "programming_languages",
        patterns |-> << Word("Python"), Word("Java"), Word("JavaScript"), Word("TypeScript"),
                        Word("C++"), Word("C#"), Word("Go"), Word("Rust"), Word("Ruby"),
                        Word("PHP"), Word("Swift"), Word("Kotlin"), Word("Scala"), Word("R"),
                        Word("Matlab"), Word("Perl"), Word("Shell"), Word("Bash") >>],
       [name |-> "frameworks_libraries",
        patterns |-> << Word("React"), Word("Angular"),
                        Cat(<<WB, Lit("Vue"), Opt(Lit(".")), Lit("js"), WB>>), Word("Django"),
                        Word("Flask"), Word("Spring"), Word("Express"), Word("Laravel"),
                        Word("Nodejs"), Word("Node.js"), Word("Bootstrap"), Word("jQuery"),
                        Word("TensorFlow"), Word("PyTorch"), Word("Scikit-learn"),
                        Word("Pandas"), Word("NumPy"), Word("Keras"), Word("OpenCV") >>],
       [name |-> "cloud_devops",
        patterns |-> << Word("AWS"), Word("Azure"), Word("GCP"), Word("Google Cloud"),
                        Word("Docker"), Word("Kubernetes"), Word("Jenkins"), Word("Git"),
                        Word("Linux"), Word("Terraform"), Word("Ansible"), Word("CI/CD"),
                        Word("DevOps"), Word("Spark"), Word("Kafka"), Word("Redis") >>],
       [name |-> "databases",
        patterns |-> << Word("SQL"), Word("NoSQL"), Word("MySQL"), Word("PostgreSQL"),
                        Word("MongoDB"), Word("Cassandra"), Word("Elasticsearch"),
                        Word("Redshift"), Word("Oracle"), Word("SQLite") >>],
       [name |-> "tools_platforms",
        patterns |-> << Word("Jira"), Word("Confluence"), Word("Slack"), Word("Tableau"),
                        Word("Power BI"), Word("Salesforce"), Word("Shopify"),
                        Word("WordPress"), Word("Figma"), Word("Sketch"), Word("Photoshop") >>],
       [name |-> "soft_skills",
        patterns |-> << Word("Agile"), Word("Scrum"), Word("Kanban"), Word("Leadership"),
                        Word("Teamwork"), Word("Communication"),
                        Cat(<<WB, Lit("Problem"), Dot, Lit("solving"), WB>>),
                        Word("Critical thinking"), Word("Project management") >> ] >>

CategoryNames == {skill_categories[k].name : k \in 1..Len(skill_categories)}

\* re.findall(pattern, t, flags) for a pattern without group: the matched texts
FindAll(r, t, ic) ==
    LET ms == FindIter(r, t, ic) IN [k \in 1..Len(ms) |-> GroupAll(t, ms[k])]

\* re.findall(pattern, t, flags) for a pattern with one group: the texts of group 1
FindAllGroup1(r, t, ic) ==
    LET ms == FindIter(r, t, ic) IN [k \in 1..Len(ms) |-> Group(t, ms[k], 1)]

\* category_skills after the inner loop: the union of the matches of the patterns
RECURSIVE CategorySkills(_, _, _)
CategorySkills(patterns, k, t) ==
    IF k > Len(patterns) THEN {}
    ELSE SetOf(FindAll(patterns[k], t, TRUE)) \cup CategorySkills(patterns, k + 1, t)

\* the set category_skills of every category
FoundSkills(t) ==
    [ name \in CategoryNames |->
        LET k == CHOOSE k \in 1..Len(skill_categories) : skill_categories[k].name = name
        IN  CategorySkills(skill_categories[k].patterns, 1, t) ]

\* extracted_skills: for the first k categories, list(category_skills) in any
\* order the set may iterate
RECURSIVE ExtractedSkills(_, _)
ExtractedSkills(found, k) ==
    IF k = 0 THEN {<<>>}
    ELSE {extracted @@ (skill_categories[k].name :> skills_list) :
            extracted \in ExtractedSkills(found, k - 1),
            skills_list \in Orderings(found[skill_categories[k].name])}

\* all_skills: the lists of the categories one after the other
RECURSIVE AllSkills(_, _)
AllSkills(extracted, k) ==
    IF k > Len(skill_categories) THEN <<>>
    ELSE extracted[skill_categories[k].name] \o AllSkills(extracted, k + 1)

\* a mutant: the flat list is deduplicated ignoring case
FlatSkills_Lower(all_skills) == Orderings({StrLower(x) : x \in SetOf(all_skills)})

\* list(set(all_skills))
FlatSkills(all_skills) == Orderings(SetOf(all_skills))

\* the values _extract_skills can return for t
JobParser_extract_skills(t) ==
    LET found == FoundSkills(t)
    IN  UNION { {[categorized |-> extracted, all |-> flat] :
                    flat \in FlatSkills(AllSkills(extracted, 1))} :
                extracted \in ExtractedSkills(found, Len(skill_categories)) }

\* tagger inputs: a database skill in two casings, a language, two
\* frameworks (one with an optional dot) and a word that is no skill
MaxSkillFrags == 2
SkillFragments == {"SQL ", "sql ", "Go ", "React ", "Vue.js ", "x "}
SkillTexts == Concats(SkillFragments, MaxSkillFrags)

JobExtractSkills ==
    /\ pc = "call"
    /\ pc' = "done"
    /\ op' = "JobParser._extract_skills"
    /\ result' \in JobParser_extract_skills(text)
    /\ UNCHANGED <<text, requirements, nice_to_have, file, log, self, frames>>

InitSkills == InitArgs(SkillTexts, {<<>>}, {<<>>})

NextSkills == JobExtractSkills

SpecSkills == InitSkills /\ [][NextSkills]_vars

IsSkillsCall == pc = "done" /\ op = "JobParser._extract_skills"

SixCategories ==
    {"programming_languages", "frameworks_libraries", "cloud_devops", "databases",
     "tools_platforms", "soft_skills"}

\* no pattern of any category is found in t
NoSkillIn(t) ==
    \A k \in 1..Len(skill_categories) : \A p \in 1..Len(skill_categories[k].patterns) :
        ~Search(skill_categories[k].patterns[p], t, TRUE).ok

NoDuplicates(seq) == \A i, j \in 1..Len(seq) : i # j => seq[i] # seq[j]

\* C10: every string of the flat list skills['all'] is in a category list of
\* skills['categorized'], every string of every category list is in the flat
\* list, the flat list holds no string twice, and when no pattern matches
\* the six category lists and the flat list are empty
C10_FlatIsUnion ==
    IsSkillsCall =>
        /\ DOMAIN result.categorized = SixCategories
        /\ \A k \in 1..Len(result.all) :
              \E c \in SixCategories : InSeq(result.all[k], result.categorized[c])
        /\ \A c \in SixCategories : \A k \in 1..Len(result.categorized[c]) :
              InSeq(result.categorized[c][k], result.all)
        /\ NoDuplicates(result.all)
        /\ NoSkillIn(text) =>
              /\ result.all = <<>>
              /\ \A c \in SixCategories : result.categorized[c] = <<>>

\* a call that found skills of two categories, one of them in two casings
C10_Witness ==
    /\ IsSkillsCall
    /\ text = "sql Go "
    /\ result.categorized["databases"] = <<"sql">>
    /\ result.categorized["programming_languages"] = <<"Go">>
    /\ Len(result.all) = 2

\* a call on a text without any skill
C10_WitnessEmpty ==
    /\ IsSkillsCall
    /\ text = "x x "
    /\ result.all = <<>>


\* no two entries of the list are the same term in different casings
OneEntryPerTerm(seq) ==
    \A i, j \in 1..Len(seq) : i # j => StrLower(seq[i]) # StrLower(seq[j])

\* the match is one and its text is entry
MatchedAs(t, match, entry) == match.ok /\ GroupAll(t, match) = entry

\* the entry is written as the first occurrence of its term in t is
FirstSeenCasing(entry, t) == MatchedAs(t, Search(Word(entry), t, TRUE), entry)

\* C11: a skill term that occurs several times in the text, matched ignoring
\* case, is one entry of its category list and one entry of the flat list,
\* in the casing of its first occurrence in the text
C11_FirstSeenCasing ==
    IsSkillsCall =>
        /\ \A c \in SixCategories :
              /\ OneEntryPerTerm(result.categorized[c])
              /\ \A k \in 1..Len(result.categorized[c]) :
                    FirstSeenCasing(result.categorized[c][k], text)
        /\ OneEntryPerTerm(result.all)
        /\ \A k \in 1..Len(result.all) : FirstSeenCasing(result.all[k], text)

\* what the code does for a term in two casings: both are entries
C11_BothCasings ==
    /\ IsSkillsCall
    /\ text = "SQL sql "
    /\ SetOf(result.categorized["databases"]) = {"SQL", "sql"}
    /\ SetOf(result.all) = {"SQL", "sql"}

(***************************************************************************)
(* Job-posting entity extractors: JobParser._extract_company_info          *)
(***************************************************************************)
Letters == Upper \cup Lower

\* an alternation of literals
Lits(words) == Alt([k \in 1..Len(words) |-> Lit(words[k])])

\* a pattern and whether it is matched ignoring case ((?i) or re.IGNORECASE)
Pat(re, ic) == [re |-> re, ic |-> ic]

role_words == <<"engineer", "developer", "manager", "analyst", "specialist", "scientist">>

title_patterns ==
    << Pat(Cat(<<Lits(<<"job title", "position", "role">>), Plus(Set(SpaceChars \cup {":"})),
                 Grp(1, Plus(NotSet({"\n"})))>>), TRUE),
       Pat(Cat(<<BOL(TRUE), Star(Set(SpaceChars)),
                 Grp(1, Cat(<<Set(Upper), Star(NotSet({"\n"})),
                              Lits(<<"engineer", "developer", "manager", "analyst",
                                     "specialist", "coordinator", "scientist">>)>>))>>), FALSE) >>

level_patterns ==
    << Pat(Cat(<<WB, Grp(1, Alt(<<Lit("senior"), Cat(<<Lit("sr"), Opt(Lit("."))>>)>>)), WB>>), TRUE),
       Pat(Cat(<<WB, Grp(1, Alt(<<Lit("junior"), Cat(<<Lit("jr"), Opt(Lit("."))>>)>>)), WB>>), TRUE),
       Pat(Cat(<<WB, Grp(1, Lits(<<"lead", "principal", "staff">>)), WB>>), TRUE),
       Pat(Cat(<<WB, Grp(1, Alt(<<Cat(<<Lit("entry"), Dot, Lit("level")>>), Lit("intern")>>)), WB>>),
           TRUE),
       Pat(Cat(<<WB, Grp(1, Alt(<<Cat(<<Lit("mid"), Dot, Lit("level")>>), Lit("intermediate")>>)),
                 WB>>), TRUE) >>

employment_patterns ==
    << Pat(Cat(<<WB, Grp(1, Alt(<<Cat(<<Lit("full"), Dot, Lit("time")>>),
                                  Cat(<<Lit("part"), Dot, Lit("time")>>),
                                  Lit("contract"), Lit("freelance"), Lit("temporary"),
                                  Lit("permanent")>>)), WB>>), TRUE),
       Pat(Cat(<<WB, Grp(1, Alt(<<Lit("remote"), Lit("hybrid"),
                                  Cat(<<Lit("on"), Dot, Lit("site")>>), Lit("onsite")>>)), WB>>),
           TRUE) >>

\* [A-Z][a-zA-Z\s&.,]+(?:Inc|Corp|Ltd|LLC|Company)
CompanyName ==
    Cat(<<Set(Upper), Plus(Set(Letters \cup SpaceChars \cup {"&", ".", ","})),
          Lits(<<"Inc", "Corp", "Ltd", "LLC", "Company">>)>>)

company_patterns ==
    << Pat(Cat(<<Lits(<<"company", "employer">>), Plus(Set(SpaceChars \cup {":"})),
                 Grp(1, Plus(NotSet({"\n"})))>>), TRUE),
       Pat(Cat(<<Lits(<<"at", "@">>), Plus(Set(SpaceChars)), Grp(1, CompanyName)>>), TRUE),
       Pat(Cat(<<BOL(FALSE), Grp(1, CompanyName)>>), TRUE) >>

location_patterns ==
    << Pat(Cat(<<Lits(<<"location", "based in", "office", "headquarters">>),
                 Star(Set(SpaceChars \cup {":"})),
                 Grp(1, Cat(<<Plus(Set(Letters \cup SpaceChars \cup {",", ".", "-"})),
                              Alt(<<Cat(<<Lit("US"), Opt(Lit("A"))>>), Lit("United States"),
                                    Lit("UK"), Lit("Canada"), Lit("Australia")>>)>>))>>), TRUE),
       Pat(Grp(1, Lits(<<"remote", "hybrid", "work from home">>)), TRUE),
       Pat(Grp(1, Cat(<<Set(Upper), Plus(Set(Lower)), Lit(","), Star(Set(SpaceChars)),
                        Rep(Set(Upper), 2, 2)>>)), TRUE),
       Pat(Grp(1, Cat(<<Set(Upper), Plus(Set(Lower)), Lit(","), Star(Set(SpaceChars)),
                        Set(Upper), Plus(Set(Lower))>>)), TRUE) >>

\* \d{1,3}(?:,\d{3})*(?:suffix)?
Amount(suffix) ==
    Cat(<<Rep(Set(Digit), 1, 3), Star(Cat(<<Lit(","), Rep(Set(Digit), 3, 3)>>)), Opt(suffix)>>)

\* \s*(?:-|to)\s*\$?
RangeDash == Cat(<<Star(Set(SpaceChars)), Lits(<<"-", "to">>), Star(Set(SpaceChars)), Opt(Lit("$"))>>)

Cents == Cat(<<Lit("."), Rep(Set(Digit), 2, 2)>>)

salary_patterns ==
    << Pat(Cat(<<Lit("$"), Grp(1, Amount(Cents)), RangeDash, Grp(2, Amount(Cents))>>), FALSE),
       Pat(Cat(<<Lit("$"), Grp(1, Amount(Lit("k"))), RangeDash, Grp(2, Amount(Lit("k")))>>), FALSE),
       Pat(Cat(<<Lit("salary"), Star(Set(SpaceChars \cup {":"})), Opt(Lit("$")),
                 Grp(1, Amount(Lits(<<"k", ",000">>))), RangeDash,
                 Grp(2, Amount(Lits(<<"k", ",000">>)))>>), TRUE) >>

size_patterns ==
    << Pat(Grp(1, Cat(<<Plus(Set(Digit)), Opt(Lit("+")), Star(Set(SpaceChars)),
                        Alt(<<OptS("employee"), Lit("people"), Lit("staff")>>)>>)), TRUE),
       Pat(Grp(1, Alt(<<Lit("startup"), Lit("small"), Lit("medium"), Lit("large"),
                        Lit("enterprise"), Cat(<<Lit("fortune "), Plus(Set(Digit))>>)>>)), TRUE) >>

\* a mutant: the pattern whose match begins first in the text wins
FirstMatch_Leftmost(patterns, k, t) ==
    LET hits == {j \in k..Len(patterns) : Search(patterns[j].re, t, patterns[j].ic).ok}
        leftmost == SetMin({Search(patterns[j].re, t, patterns[j].ic).start : j \in hits})
        first == CHOOSE j \in hits : Search(patterns[j].re, t, patterns[j].ic).start = leftmost
    IN  IF hits = {} THEN NoMatch ELSE Search(patterns[first].re, t, patterns[first].ic)

\* for pattern in patterns: match = re.search(pattern, t); if match: ... break
\* the match of the first pattern of the list that matches
RECURSIVE FirstMatch(_, _, _)
FirstMatch(patterns, k, t) ==
    IF k > Len(patterns) THEN NoMatch
    ELSE OrElse(Search(patterns[k].re, t, patterns[k].ic), FirstMatch(patterns, k + 1, t))

\* match.group(1).strip() if match, None without one
Group1Stripped(t, match) == IF match.ok THEN Some(Strip(Group(t, match, 1))) ELSE None

\* match.group(1).strip() of the first matching pattern, None without one
FirstGroupStripped(patterns, t) == Group1Stripped(t, FirstMatch(patterns, 1, t))

\* the first of the (at most ten) lines that, stripped, is not empty and
\* holds a role word
RECURSIVE TitleLine(_, _)
TitleLine(lines, k) ==
    IF k > Len(lines) \/ k > 10 THEN None
    ELSE LET line == Strip(lines[k])
         IN  IF line # "" /\ \E w \in 1..Len(role_words) : Contains(role_words[w], StrLower(line))
             THEN Some(line)
             ELSE TitleLine(lines, k + 1)

\* if not company_info['job_title']: the line if there is one
TitleOrLine(title, line) ==
    IF title = None \/ title = Some("")
    THEN (IF line # None THEN line ELSE title)
    ELSE title

job_title(t) ==
    TitleOrLine(FirstGroupStripped(title_patterns, t), TitleLine(Split(t, {"\n"}), 1))

\* match.group(1).lower() if match
Group1Lower(t, match) == IF match.ok THEN Some(StrLower(Group(t, match, 1))) ELSE None

job_level(t) == Group1Lower(t, FirstMatch(level_patterns, 1, t))

\* employment_types: the findall results of the two patterns, one after the other
employment_types(t) ==
    FindAllGroup1(employment_patterns[1].re, t, TRUE)
        \o FindAllGroup1(employment_patterns[2].re, t, TRUE)

\* the values ', '.join(set(types)) can take, None for an empty list
JoinedTypes(types) ==
    IF types = <<>> THEN {None}
    ELSE {Some(Join(", ", order)) : order \in Orderings(SetOf(types))}

employment_type(t) == JoinedTypes(employment_types(t))

\* f"${match.group(1)} - ${match.group(2)}" if match
SalaryText(t, match) ==
    IF match.ok THEN Some("$" \o Group(t, match, 1) \o " - $" \o Group(t, match, 2))
    ELSE None

salary_range(t) == SalaryText(t, FirstMatch(salary_patterns, 1, t))

\* a mutant: the dict starts without the key that no extractor assigns
company_info_init_NoIndustry ==
    [ name |-> None, size |-> None, location |-> None, job_title |-> None,
      job_level |-> None, employment_type |-> None, salary_range |-> None ]

\* the dict company_info as initialised: every field None
company_info_init ==
    [ name |-> None, industry |-> None, size |-> None, location |-> None,
      job_title |-> None, job_level |-> None, employment_type |-> None, salary_range |-> None ]

\* if match: dict[key] = value (value None: no match, no assignment)
Assign(dict, key, value) == IF value = None THEN dict ELSE (key :> value) @@ dict

\* dict after the assignments of the <<key, value>> pairs of fields
RECURSIVE AssignAll(_, _)
AssignAll(dict, fields) ==
    IF fields = <<>> THEN dict
    ELSE AssignAll(Assign(dict, Head(fields)[1], Head(fields)[2]), Tail(fields))

\* the values _extract_company_info can return for t
JobParser_extract_company_info(t) ==
    { AssignAll(company_info_init,
                << <<"job_title", job_title(t)>>,
                   <<"job_level", job_level(t)>>,
                   <<"employment_type", joined>>,
                   <<"name", FirstGroupStripped(company_patterns, t)>>,
                   <<"location", FirstGroupStripped(location_patterns, t)>>,
                   <<"salary_range", salary_range(t)>>,
                   <<"size", FirstGroupStripped(size_patterns, t)>> >>) :
      joined \in employment_type(t) }

(***************************************************************************)
(* Resume entity extractors                                                *)
(***************************************************************************)
PhoneSeparator == Opt(Set({"-", "."} \cup SpaceChars))

email_pattern ==
    Cat(<<WB, Plus(Set(Letters \cup Digit \cup {".", "_", "%", "+", "-"})), Lit("@"),
          Plus(Set(Letters \cup Digit \cup {".", "-"})), Lit("."),
          Rep(Set(Letters \cup {"|"}), 2, Inf), WB>>)

phone_pattern ==
    Cat(<<Opt(Grp(1, Cat(<<Opt(Lit("+")), Rep(Set(Digit), 1, 3), PhoneSeparator>>))),
          Opt(Lit("(")), Rep(Set(Digit), 3, 3), Opt(Lit(")")), PhoneSeparator,
          Rep(Set(Digit), 3, 3), PhoneSeparator, Rep(Set(Digit), 4, 4)>>)

linkedin_pattern ==
    Cat(<<Lit("linkedin.com/in/"), Grp(1, Plus(Set(Letters \cup Digit \cup {"-"})))>>)

github_pattern ==
    Cat(<<Lit("github.com/"), Grp(1, Plus(Set(Letters \cup Digit \cup {"-"})))>>)

\* match.group() if match, None without one
WholeMatch(t, match) == IF match.ok THEN Some(GroupAll(t, match)) ELSE None

\* match.group() of re.search(pattern, t), None without a match
SearchGroup(pattern, t, ic) == WholeMatch(t, Search(pattern, t, ic))

\* a mutant: the profile fields keep the handle (group 1) only
ProfileField_Handle(pattern, t) ==
    LET match == Search(pattern, t, TRUE)
    IN  IF match.ok THEN Some(Group(t, match, 1)) ELSE None

\* contact_info['linkedin'], contact_info['github']: the whole match
ProfileField(pattern, t) == SearchGroup(pattern, t, TRUE)

ResumeParser_extract_contact_info(t) ==
    [ email    |-> SearchGroup(email_pattern, t, FALSE),
      phone    |-> SearchGroup(phone_pattern, t, FALSE),
      linkedin |-> ProfileField(linkedin_pattern, t),
      github   |-> ProfileField(github_pattern, t),
      location |-> None ]

\* the characters of [,;\n|] (the bullet of the class is outside ASCII)
SkillSeparators == {",", ";", "\n", "|"}

\* if skill and len(skill) > 1
RECURSIVE CleanedSkills(_)
CleanedSkills(items) ==
    IF items = <<>> THEN <<>>
    ELSE (IF CleanItem(Head(items)) # "" /\ Len(CleanItem(Head(items))) > 1
          THEN <<CleanItem(Head(items))>> ELSE <<>>)
         \o CleanedSkills(Tail(items))

ResumeParser_extract_skills(skills_text) ==
    IF skills_text = "" THEN <<>>
    ELSE CleanedSkills(Split(skills_text, SkillSeparators))

\* re.split(pattern, s, flags) for a pattern without group
RECURSIVE Pieces(_, _, _, _)
Pieces(ms, k, s, from) ==
    IF k > Len(ms) THEN <<Slice(s, from, Len(s))>>
    ELSE <<Slice(s, from, ms[k].start)>> \o Pieces(ms, k + 1, s, ms[k].end)

ReSplit(r, s, ic) == Pieces(FindIter(r, s, ic), 1, s, 0)

\* \n(?=[A-Z][^,]*(?:,|\s+\d{4}))
job_entry_pattern ==
    Cat(<<Lit("\n"),
          LookAhead(Cat(<<Set(Upper), Star(NotSet({","})),
                          Alt(<<Lit(","),
                                Cat(<<Plus(Set(SpaceChars)), Rep(Set(Digit), 4, 4)>>)>>)>>))>>)

\* (\d{4})\s*[-]\s*(\d{4}|present|current) (the two long dashes of the class
\* are outside ASCII)
date_pattern ==
    Cat(<<Grp(1, Rep(Set(Digit), 4, 4)), Star(Set(SpaceChars)), Lit("-"), Star(Set(SpaceChars)),
          Grp(2, Alt(<<Rep(Set(Digit), 4, 4), Lit("present"), Lit("current")>>))>>)

\* description_lines: the stripped lines that are not empty and do not
\* start with four digits
RECURSIVE DescriptionLines(_)
DescriptionLines(lines) ==
    IF lines = <<>> THEN <<>>
    ELSE LET line == Strip(Head(lines))
         IN  (IF line # "" /\ ~MatchAt(Rep(Set(Digit), 4, 4), line, FALSE, 0).ok
              THEN <<line>> ELSE <<>>)
             \o DescriptionLines(Tail(lines))

ResumeParser_parse_job_entry(entry) ==
    LET lines == Split(entry, {"\n"})
    IN  [ title       |-> Strip(lines[1]),
          company     |-> None,
          dates       |-> SearchGroup(date_pattern, entry, TRUE),
          description |-> Join("\n", DescriptionLines(Tail(lines))),
          raw_text    |-> entry ]

\* if len(entry.strip()) > 20
RECURSIVE ExperienceEntries(_)
ExperienceEntries(job_entries) ==
    IF job_entries = <<>> THEN <<>>
    ELSE (IF Len(Strip(Head(job_entries))) > 20
          THEN <<ResumeParser_parse_job_entry(Strip(Head(job_entries)))>> ELSE <<>>)
         \o ExperienceEntries(Tail(job_entries))

ResumeParser_extract_experience(experience_text) ==
    IF experience_text = "" THEN <<>>
    ELSE ExperienceEntries(ReSplit(job_entry_pattern, experience_text, FALSE))

\* \n(?=[A-Z][^,]*(?:degree|bachelor|master|phd|university|college))
education_entry_pattern ==
    Cat(<<Lit("\n"),
          LookAhead(Cat(<<Set(Upper), Star(NotSet({","})),
                          Lits(<<"degree", "bachelor", "master", "phd", "university",
                                 "college">>)>>))>>)

degree_pattern ==
    Grp(1, Lits(<<"bachelor", "master", "phd", "doctorate", "associate", "diploma",
                  "certificate">>))

\* \b(19|20)\d{2}\b
year_pattern == Cat(<<WB, Grp(1, Lits(<<"19", "20">>)), Rep(Set(Digit), 2, 2), WB>>)

ResumeParser_parse_education_entry(entry) ==
    [ degree      |-> SearchGroup(degree_pattern, entry, TRUE),
      institution |-> None,
      year        |-> SearchGroup(year_pattern, entry, FALSE),
      raw_text    |-> entry ]

\* if len(entry.strip()) > 10
RECURSIVE EducationEntries(_)
EducationEntries(entries) ==
    IF entries = <<>> THEN <<>>
    ELSE (IF Len(Strip(Head(entries))) > 10
          THEN <<ResumeParser_parse_education_entry(Strip(Head(entries)))>> ELSE <<>>)
         \o EducationEntries(Tail(entries))

ResumeParser_extract_education(education_text) ==
    IF education_text = "" THEN <<>>
    ELSE EducationEntries(ReSplit(education_entry_pattern, education_text, TRUE))

(***************************************************************************)
(* The parse entry points: JobParser.parse_job_text, ResumeParser.parse_text *)
(***************************************************************************)
\* the records parse_job_text builds from the cleaned text and its sections
JobParsed(t, cleaned_text, sections) ==
    { [ raw_text         |-> t,
        cleaned_text     |-> cleaned_text,
        sections         |-> sections,
        requirements     |->
            JobParser_classify_requirements(
                JobParser_extract_requirements(DictGet(sections, "requirements", "")),
                JobParser_extract_requirements(DictGet(sections, "nice_to_have", "")),
                cleaned_text),
        responsibilities |->
            JobParser_extract_responsibilities(DictGet(sections, "responsibilities", "")),
        skills           |-> skills,
        company_info     |-> company_info ] :
      skills \in JobParser_extract_skills(cleaned_text),
      company_info \in JobParser_extract_company_info(cleaned_text) }

JobParsedClean(t, cleaned_text) ==
    JobParsed(t, cleaned_text, JobParser_extract_sections(cleaned_text))

\* the records parse_job_text can return for t
JobParser_parse_job_text(t) == JobParsedClean(t, JobParser_clean_text(t))

\* the record parse_text builds from the cleaned text and its sections
ResumeParsed(t, cleaned_text, sections) ==
    [ raw_text     |-> t,
      cleaned_text |-> cleaned_text,
      contact_info |-> ResumeParser_extract_contact_info(cleaned_text),
      sections     |-> sections,
      skills       |-> ResumeParser_extract_skills(DictGet(sections, "skills", "")),
      experience   |-> ResumeParser_extract_experience(DictGet(sections, "experience", "")),
      education    |-> ResumeParser_extract_education(DictGet(sections, "education", "")),
      summary      |-> DictGet(sections, "summary", "") ]

\* a mutant: the sections are cut from the text as given, before it is cleaned
ResumeParsedClean_Raw(t, cleaned_text) ==
    ResumeParsed(t, cleaned_text, ResumeParser_extract_sections(t))

\* sections = self._extract_sections(cleaned_text) and the statements after it
ResumeParsedClean(t, cleaned_text) ==
    ResumeParsed(t, cleaned_text, ResumeParser_extract_sections(cleaned_text))

\* the record parse_text returns for t
ResumeParser_parse_text(t) == ResumeParsedClean(t, ResumeParser_clean_text(t))

\* document inputs: a salary label, two salary ranges, two profile links, a
\* skills section and a requirements section
MaxDocFrags == 2
DocFragments ==
    {"Salary: ", "$120,000 - $150,000 ", "$90k - $95k ", "linkedin.com/in/jd ",
     "github.com/jd ", "Skills: SQL, Go\n", "Requirements:\n- Senior dev\n"}
DocTexts == Concats(DocFragments, MaxDocFrags)

ParseJobText ==
    /\ pc = "call"
    /\ pc' = "done"
    /\ op' = "JobParser.parse_job_text"
    /\ result' \in JobParser_parse_job_text(text)
    /\ UNCHANGED <<text, requirements, nice_to_have, file, log, self, frames>>

ParseText ==
    /\ pc = "call"
    /\ pc' = "done"
    /\ op' = "ResumeParser.parse_text"
    /\ result' = ResumeParser_parse_text(text)
    /\ UNCHANGED <<text, requirements, nice_to_have, file, log, self, frames>>

Init == InitArgs(DocTexts, {<<>>}, {<<>>})

Next == ParseJobText \/ ParseText

Spec == Init /\ [][Next]_vars

IsJobParse == pc = "done" /\ op = "JobParser.parse_job_text"

IsResumeParse == pc = "done" /\ op = "ResumeParser.parse_text"

JobDeclaredKeys == {"requirements", "responsibilities", "skills", "company_info"}

CompanyInfoFields ==
    {"name", "industry", "size", "location", "job_title", "job_level", "employment_type",
     "salary_range"}

ResumeDeclaredKeys == {"contact_info", "skills", "experience", "education", "summary"}

ContactInfoFields == {"email", "phone", "linkedin", "github", "location"}

\* null or a string
IsOptionalStr(v) == v = None \/ Len(v) = 1

\* none of the patterns of the list is found in t
Unmatched(patterns, t) == ~FirstMatch(patterns, 1, t).ok

\* the section is not a key of the sections dict
NoSection(name) == name \notin DOMAIN result.sections

\* the record of a job posting holds every declared key, and the fields
\* whose pattern or section did not match hold their default
JobRecordComplete ==
    /\ JobDeclaredKeys \subseteq DOMAIN result
    /\ DOMAIN result.requirements = {"must_have", "nice_to_have"}
    /\ DOMAIN result.skills = {"categorized", "all"}
    /\ DOMAIN result.skills.categorized = SixCategories
    /\ DOMAIN result.company_info = CompanyInfoFields
    /\ \A f \in CompanyInfoFields : IsOptionalStr(result.company_info[f])
    /\ NoSection("requirements") => result.requirements.must_have = <<>>
    /\ NoSection("requirements") /\ NoSection("nice_to_have") =>
          result.requirements.nice_to_have = <<>>
    /\ NoSection("responsibilities") => result.responsibilities = <<>>
    /\ NoSkillIn(result.cleaned_text) =>
          /\ result.skills.all = <<>>
          /\ \A c \in SixCategories : result.skills.categorized[c] = <<>>
    /\ result.company_info.industry = None
    /\ Unmatched(title_patterns, result.cleaned_text)
          /\ TitleLine(Split(result.cleaned_text, {"\n"}), 1) = None =>
          result.company_info.job_title = None
    /\ Unmatched(level_patterns, result.cleaned_text) => result.company_info.job_level = None
    /\ Unmatched(employment_patterns, result.cleaned_text) =>
          result.company_info.employment_type = None
    /\ Unmatched(company_patterns, result.cleaned_text) => result.company_info.name = None
    /\ Unmatched(location_patterns, result.cleaned_text) => result.company_info.location = None
    /\ Unmatched(salary_patterns, result.cleaned_text) => result.company_info.salary_range = None
    /\ Unmatched(size_patterns, result.cleaned_text) => result.company_info.size = None

\* the record of a resume holds every declared key, and the fields whose
\* pattern or section did not match hold their default
ResumeRecordComplete ==
    /\ ResumeDeclaredKeys \subseteq DOMAIN result
    /\ DOMAIN result.contact_info = ContactInfoFields
    /\ \A f \in ContactInfoFields : IsOptionalStr(result.contact_info[f])
    /\ ~Search(email_pattern, result.cleaned_text, FALSE).ok => result.contact_info.email = None
    /\ ~Search(phone_pattern, result.cleaned_text, FALSE).ok => result.contact_info.phone = None
    /\ ~Search(linkedin_pattern, result.cleaned_text, TRUE).ok =>
          result.contact_info.linkedin = None
    /\ ~Search(github_pattern, result.cleaned_text, TRUE).ok => result.contact_info.github = None
    /\ result.contact_info.location = None
    /\ NoSection("skills") => result.skills = <<>>
    /\ NoSection("experience") => result.experience = <<>>
    /\ NoSection("education") => result.education = <<>>
    /\ NoSection("summary") => result.summary = ""

\* C7: for every text, the empty one and one without section header
\* included, parse_job_text and parse_text return a record with every
\* declared key, in which every field whose pattern or section did not match
\* is null, an empty list or an empty string
C7_AllKeys ==
    /\ IsJobParse => JobRecordComplete
    /\ IsResumeParse => ResumeRecordComplete

\* parse_job_text("") returned: empty lists and a company_info of eight nulls
C7_Witness ==
    /\ IsJobParse
    /\ text = ""
    /\ result.requirements = [must_have |-> <<>>, nice_to_have |-> <<>>]
    /\ result.responsibilities = <<>>
    /\ result.skills.all = <<>>
    /\ \A f \in CompanyInfoFields : result.company_info[f] = None

\* parse_text("") returned: empty lists, an empty summary, five nulls
C7_WitnessResume ==
    /\ IsResumeParse
    /\ text = ""
    /\ result.skills = <<>> /\ result.experience = <<>> /\ result.education = <<>>
    /\ result.summary = ""
    /\ \A f \in ContactInfoFields : result.contact_info[f] = None

\* \$<low> - \$<high>, low and high comma-grouped integers or k-suffixed numbers
WrittenRange == Cat(<<Lit("$"), Amount(Lit("k")), Lit(" - $"), Amount(Lit("k"))>>)

\* the salary ranges written in t
WrittenRanges(t) == SetOf(FindAll(WrittenRange, t, FALSE))

\* C8: parse_job_text on a text that contains a salary range written
\* "$<low> - $<high>" returns that range as company_info.salary_range,
\* whether or not a "Salary" label precedes it
C8_SalaryRange ==
    IsJobParse /\ WrittenRanges(text) # {} =>
        \E range \in WrittenRanges(text) : result.company_info.salary_range = Some(range)

\* the range is returned when the label "Salary" precedes it
C8_Labelled ==
    /\ IsJobParse
    /\ text = "Salary: $120,000 - $150,000 "
    /\ result.company_info.salary_range = Some("$120,000 - $150,000")

\* the profile path of the pattern in t, none without one
ProfilePath(pattern, t) == SearchGroup(pattern, t, TRUE)

\* the field holds the profile path that the text holds, and is null only
\* when the text holds none
HoldsProfile(field, path) ==
    IF path = None THEN field = None
    ELSE field # None /\ Contains(path[1], field[1])

\* C9: parse_text on a text that contains "linkedin.com/in/<handle>" returns
\* a non-null contact_info.linkedin containing that path, on a text that
\* contains "github.com/<handle>" a non-null contact_info.github containing
\* that path, and each field is null only when the text holds no such path
C9_ProfileLinks ==
    IsResumeParse =>
        /\ HoldsProfile(result.contact_info.linkedin, ProfilePath(linkedin_pattern, text))
        /\ HoldsProfile(result.contact_info.github, ProfilePath(github_pattern, text))

(***************************************************************************)
(* The file adapter: ResumeParser.parse_file                               *)
(***************************************************************************)
\* the positions of s that hold the character c
PositionsOf(c, s) == {i \in 1..Len(s) : Char(s, i) = c}

\* s from the position after the last of the positions cuts on
AfterLast(s, cuts) == IF cuts = {} THEN s ELSE SubSeq(s, SetMax(cuts) + 1, Len(s))

\* Path.name: the final component of the path
PathName(path) == AfterLast(path, PositionsOf("/", path))

\* the suffix of a name whose dots are at the positions dots: the name from
\* its last dot on, unless that dot is its first or its last character
SuffixFrom(name, dots) ==
    IF dots # {} /\ 1 < SetMax(dots) /\ SetMax(dots) < Len(name)
    THEN SubSeq(name, SetMax(dots), Len(name))
    ELSE ""

\* Path.suffix
PathSuffix(path) == SuffixFrom(PathName(path), PositionsOf(".", PathName(path)))

\* file_path.suffix.lower() is none of '.pdf', '.docx', '.doc'
Unsupported(path) == StrLower(PathSuffix(path)) \notin {".pdf", ".docx", ".doc"}

\* a mutant: the extension is looked at before the existence of the file
FirstError_SuffixFirst(f) ==
    IF Unsupported(f.name) THEN "ValueError"
    ELSE IF ~f.exists THEN "FileNotFoundError"
    ELSE "none"

\* the exception the checks of parse_file raise for the file f, in the
\* order the code makes them
FirstError(f) ==
    IF ~f.exists THEN "FileNotFoundError"
    ELSE IF Unsupported(f.name) THEN "ValueError"
    ELSE "none"

\* file inputs: the three supported extensions, one in upper case, an
\* unsupported one, no extension, a dot file, a dot in a directory name
FileNames == {"cv.pdf", "cv.PDF", "cv.docx", "cv.doc", "cv.txt", "cv", ".pdf", "a.pdf/cv"}

MaxFileFrags == 2
FileFragments == {" Skills: SQL, Go\n", "x "}
FileContents == Concats(FileFragments, MaxFileFrags)

\* the files a path can name: none, one the extraction library cannot
\* read, one that holds a text
Files ==
    {[name |-> n, exists |-> FALSE, readable |-> FALSE, content |-> ""] : n \in FileNames}
    \cup {[name |-> n, exists |-> TRUE, readable |-> FALSE, content |-> ""] : n \in FileNames}
    \cup {[name |-> n, exists |-> TRUE, readable |-> TRUE, content |-> c] :
            n \in FileNames, c \in FileContents}

\* if not file_path.exists(): raise FileNotFoundError
ParseFileNotFound ==
    /\ pc = "call"
    /\ FirstError(file) = "FileNotFoundError"
    /\ pc' = "raised"
    /\ op' = "ResumeParser.parse_file"
    /\ result' = [raised |-> "FileNotFoundError"]
    /\ UNCHANGED <<text, requirements, nice_to_have, file, log, self, frames>>

\* else: raise ValueError
ParseFileUnsupported ==
    /\ pc = "call"
    /\ FirstError(file) = "ValueError"
    /\ pc' = "raised"
    /\ op' = "ResumeParser.parse_file"
    /\ result' = [raised |-> "ValueError"]
    /\ UNCHANGED <<text, requirements, nice_to_have, file, log, self, frames>>

\* text = self._extract_pdf_text(file_path): the stripped text of the pages,
\* or the exception of the library for a file it cannot read
ParseFileExtractPdf ==
    /\ pc = "call"
    /\ FirstError(file) = "none"
    /\ StrLower(PathSuffix(file.name)) = ".pdf"
    /\ op' = "ResumeParser.parse_file"
    /\ log' = Append(log, "_extract_pdf_text")
    /\ IF file.readable
       THEN pc' = "extracted" /\ text' = Strip(file.content) /\ result' = result
       ELSE pc' = "raised" /\ text' = text /\ result' = [raised |-> "library error"]
    /\ UNCHANGED <<requirements, nice_to_have, file, self, frames>>

\* text = self._extract_docx_text(file_path)
ParseFileExtractDocx ==
    /\ pc = "call"
    /\ FirstError(file) = "none"
    /\ StrLower(PathSuffix(file.name)) \in {".docx", ".doc"}
    /\ op' = "ResumeParser.parse_file"
    /\ log' = Append(log, "_extract_docx_text")
    /\ IF file.readable
       THEN pc' = "extracted" /\ text' = Strip(file.content) /\ result' = result
       ELSE pc' = "raised" /\ text' = text /\ result' = [raised |-> "library error"]
    /\ UNCHANGED <<requirements, nice_to_have, file, self, frames>>

\* return self.parse_text(text)
ParseFileParseText ==
    /\ pc = "extracted"
    /\ pc' = "done"
    /\ log' = Append(log, "parse_text")
    /\ result' = ResumeParser_parse_text(text)
    /\ UNCHANGED <<op, text, requirements, nice_to_have, file, self, frames>>

InitFile ==
    /\ pc = "call"
    /\ op = "none"
    /\ text = ""
    /\ requirements = <<>>
    /\ nice_to_have = <<>>
    /\ result = ""
    /\ file \in Files
    /\ log = <<>>
    /\ self = Constructed
    /\ frames = <<>>

NextFile ==
    \/ ParseFileNotFound
    \/ ParseFileUnsupported
    \/ ParseFileExtractPdf
    \/ ParseFileExtractDocx
    \/ ParseFileParseText

SpecFile == InitFile /\ [][NextFile]_vars

IsParseFile == op = "ResumeParser.parse_file"

Raised(exception) == pc = "raised" /\ result = [raised |-> exception]

\* C12: parse_file raises FileNotFoundError for a path that names no file,
\* whatever its extension, and ValueError for a file whose extension is none
\* of .pdf, .docx, .doc; in both cases no text was extracted and parse_text
\* was not called
C12_FileErrors ==
    IsParseFile =>
        /\ ~file.exists => Raised("FileNotFoundError") /\ log = <<>>
        /\ file.exists /\ Unsupported(file.name) => Raised("ValueError") /\ log = <<>>
        /\ Raised("FileNotFoundError") => ~file.exists
        /\ Raised("ValueError") => file.exists /\ Unsupported(file.name)

\* a missing file with an unsupported extension is reported as missing
C12_Witness ==
    /\ IsParseFile
    /\ file.name = "cv.txt"
    /\ ~file.exists
    /\ Raised("FileNotFoundError")
    /\ log = <<>>

\* a file with an unsupported extension is reported as such
C12_WitnessUnsupported ==
    /\ IsParseFile
    /\ file.name = ".pdf"
    /\ file.exists
    /\ Raised("ValueError")
    /\ log = <<>>

(***************************************************************************)
(* Concurrent parse calls on one parser instance                           *)
(***************************************************************************)
\* the callers: two workers of a pool that share the parser
Workers == {"w1", "w2"}

\* a mutant: the local variables are kept in one place for all calls
Frame_Shared(w) == "w1"

\* where the local variables of the call of worker w live: in the frame of
\* the call, one for every call
Frame(w) == w

\* the local variables parse_job_text assigns, in the order of its statements
JobTargets ==
    <<"cleaned_text", "sections", "requirements", "nice_to_have", "responsibilities",
      "skills", "company_info", "classified_requirements">>

\* the values the k-th statement of parse_job_text can assign, given the
\* argument t and the local variables assigned so far
JobStatementValues(k, t, locals) ==
    CASE k = 1 -> {JobParser_clean_text(t)}
      [] k = 2 -> {JobParser_extract_sections(locals.cleaned_text)}
      [] k = 3 -> {JobParser_extract_requirements(DictGet(locals.sections, "requirements", ""))}
      [] k = 4 -> {JobParser_extract_requirements(DictGet(locals.sections, "nice_to_have", ""))}
      [] k = 5 ->
           {JobParser_extract_responsibilities(DictGet(locals.sections, "responsibilities", ""))}
      [] k = 6 -> JobParser_extract_skills(locals.cleaned_text)
      [] k = 7 -> JobParser_extract_company_info(locals.cleaned_text)
      [] k = 8 -> {JobParser_classify_requirements(locals.requirements, locals.nice_to_have,
                                                   locals.cleaned_text)}

\* the dict parse_job_text returns
JobReturnValue(t, locals) ==
    [ raw_text         |-> t,
      cleaned_text     |-> locals.cleaned_text,
      sections         |-> locals.sections,
      requirements     |-> locals.classified_requirements,
      responsibilities |-> locals.responsibilities,
      skills           |-> locals.skills,
      company_info     |-> locals.company_info ]

\* the local variables parse_text assigns, in the order of its statements
ResumeTargets ==
    <<"cleaned_text", "sections", "contact_info", "skills", "experience", "education">>

\* the value the k-th statement of parse_text assigns
ResumeStatementValues(k, t, locals) ==
    CASE k = 1 -> {ResumeParser_clean_text(t)}
      [] k = 2 -> {ResumeParser_extract_sections(locals.cleaned_text)}
      [] k = 3 -> {ResumeParser_extract_contact_info(locals.cleaned_text)}
      [] k = 4 -> {ResumeParser_extract_skills(DictGet(locals.sections, "skills", ""))}
      [] k = 5 -> {ResumeParser_extract_experience(DictGet(locals.sections, "experience", ""))}
      [] k = 6 -> {ResumeParser_extract_education(DictGet(locals.sections, "education", ""))}

\* the dict parse_text returns
ResumeReturnValue(t, locals) ==
    [ raw_text     |-> t,
      cleaned_text |-> locals.cleaned_text,
      contact_info |-> locals.contact_info,
      sections     |-> locals.sections,
      skills       |-> locals.skills,
      experience   |-> locals.experience,
      education    |-> locals.education,
      summary      |-> DictGet(locals.sections, "summary", "") ]

\* frames after the call of worker w assigned value to its local variable
\* target and moved to its next statement
Assigned(w, target, value) ==
    [ f \in Workers |->
        [ frames[f] EXCEPT
            !.at = IF f = w THEN @ + 1 ELSE @,
            !.locals = IF f = Frame(w) THEN (target :> value) @@ @ ELSE @ ] ]

\* frames after the call of worker w returned value
Returned(w, value) ==
    [frames EXCEPT ![w] = [@ EXCEPT !.at = 0, !.result = value]]

\* one statement of parse_job_text in the call of worker w
JobStatement(w) ==
    /\ op = "JobParser.parse_job_text"
    /\ frames[w].at \in 1..Len(JobTargets)
    /\ \E value \in JobStatementValues(frames[w].at, frames[w].text, frames[Frame(w)].locals) :
          frames' = Assigned(w, JobTargets[frames[w].at], value)
    /\ UNCHANGED <<pc, op, text, requirements, nice_to_have, result, file, log, self>>

\* the return statement of parse_job_text in the call of worker w
JobReturn(w) ==
    /\ op = "JobParser.parse_job_text"
    /\ frames[w].at = Len(JobTargets) + 1
    /\ frames' = Returned(w, JobReturnValue(frames[w].text, frames[Frame(w)].locals))
    /\ UNCHANGED <<pc, op, text, requirements, nice_to_have, result, file, log, self>>

\* one statement of parse_text in the call of worker w
ResumeStatement(w) ==
    /\ op = "ResumeParser.parse_text"
    /\ frames[w].at \in 1..Len(ResumeTargets)
    /\ \E value \in ResumeStatementValues(frames[w].at, frames[w].text,
                                          frames[Frame(w)].locals) :
          frames' = Assigned(w, ResumeTargets[frames[w].at], value)
    /\ UNCHANGED <<pc, op, text, requirements, nice_to_have, result, file, log, self>>

\* the return statement of parse_text in the call of worker w
ResumeReturn(w) ==
    /\ op = "ResumeParser.parse_text"
    /\ frames[w].at = Len(ResumeTargets) + 1
    /\ frames' = Returned(w, ResumeReturnValue(frames[w].text, frames[Frame(w)].locals))
    /\ UNCHANGED <<pc, op, text, requirements, nice_to_have, result, file, log, self>>

\* call inputs: a text with a section and a skill in two casings, a text
\* with a level and a role word, the empty text
MaxCallTexts == 2
CallTextList == <<"Skills: SQL sql\n", "Senior Go dev", "">>
CallTexts ==
    {CallTextList[k] : k \in {k \in 1..Len(CallTextList) : k <= MaxCallTexts}}

\* every worker is about to run the first statement of the method op on a
\* text of its own
InitCalls ==
    /\ pc = "call"
    /\ op \in {"JobParser.parse_job_text", "ResumeParser.parse_text"}
    /\ text = ""
    /\ requirements = <<>>
    /\ nice_to_have = <<>>
    /\ result = ""
    /\ file = NoFile
    /\ log = <<>>
    /\ self = Constructed
    /\ frames \in [Workers ->
                     {[at |-> 1, text |-> t, locals |-> <<>>, result |-> <<>>] : t \in CallTexts}]

NextCalls ==
    \E w \in Workers : JobStatement(w) \/ JobReturn(w) \/ ResumeStatement(w) \/ ResumeReturn(w)

SpecCalls == InitCalls /\ [][NextCalls]_vars

\* the call of worker w returned
HasReturned(w) == frames[w].at = 0

\* the records the method returns for t when it runs alone
AloneResults(method, t) ==
    IF method = "JobParser.parse_job_text" THEN JobParser_parse_job_text(t)
    ELSE {ResumeParser_parse_text(t)}

\* C13: no step of a parse call writes a field of the parser instance, and
\* in every interleaving of the calls on one instance each call returns a
\* record that it can return when it runs alone
C13_Independent ==
    /\ self = Constructed
    /\ \A w \in Workers :
          HasReturned(w) => frames[w].result \in AloneResults(op, frames[w].text)

\* both calls returned, on different texts, after their statements interleaved
C13_Witness ==
    /\ op = "JobParser.parse_job_text"
    /\ \A w \in Workers : HasReturned(w)
    /\ frames["w1"].text = "Skills: SQL sql\n"
    /\ frames["w2"].text = "Senior Go dev"
    /\ frames["w1"].result.skills.all = <<"SQL", "sql">>
    /\ frames["w2"].result.company_info.job_level = Some("senior")

(***************************************************************************)
(* Determinism of parse_job_text                                           *)
(***************************************************************************)
\* C14: parse_job_text is deterministic: the record a call returned for a
\* text is the only record a call on that text returns, in this run or in
\* another, the order of the items of skills['all'], of the categorized
\* lists and of the joined employment_type included
C14_Deterministic ==
    IsJobParse => JobParser_parse_job_text(text) = {result}

\* a call returned the two skills of the text in one of their two orders
C14_TwoOrders ==
    /\ IsJobParse
    /\ text = "Skills: SQL, Go\n"
    /\ result.skills.all = <<"Go", "SQL">>
    /\ \E other \in JobParser_parse_job_text(text) : other.skills.all = <<"SQL", "Go">>

(***************************************************************************)
(* Calls of JobParser._extract_company_info                                *)
(***************************************************************************)
\* inputs: work-arrangement and location-mode terms, one of them in two
\* casings, level words of the first, third and fourth pattern, a title
\* line, and text with no term
MaxTermFrags == 2
TermFragments ==
    {"Remote ", "remote ", "Full-time ", "Senior Software Engineer\n", "staff ", "intern ", "x "}
TermTexts == Concats(TermFragments, MaxTermFrags)

JobExtractCompanyInfo ==
    /\ pc = "call"
    /\ pc' = "done"
    /\ op' = "JobParser._extract_company_info"
    /\ result' \in JobParser_extract_company_info(text)
    /\ UNCHANGED <<text, requirements, nice_to_have, file, log, self, frames>>

InitCompany == InitArgs(TermTexts, {<<>>}, {<<>>})

NextCompany == JobExtractCompanyInfo

SpecCompany == InitCompany /\ [][NextCompany]_vars

IsCompanyCall == pc = "done" /\ op = "JobParser._extract_company_info"

\* the strings the two employment patterns match in t
TermsFound(t) == SetOf(employment_types(t))

\* the terms of a set of matched strings: the strings without their casing
TermsOf(found) == {StrLower(x) : x \in found}

\* seq lists each term of found exactly once, in one of its matched casings
EachTermOnce(seq, found) ==
    /\ SetOf(seq) \subseteq found
    /\ TermsOf(SetOf(seq)) = TermsOf(found)
    /\ OneEntryPerTerm(seq)

\* C15: employment_type is null when the text holds no work-arrangement and
\* no location-mode term; otherwise it is the ", "-joined list of all the
\* terms matched without regard to case, each term exactly once however
\* many times it occurs in the text
C15_EmploymentType ==
    IsCompanyCall =>
        IF TermsFound(text) = {}
        THEN result.employment_type = None
        ELSE \E S \in SUBSET TermsFound(text) : \E seq \in Orderings(S) :
                /\ EachTermOnce(seq, TermsFound(text))
                /\ result.employment_type = Some(Join(", ", seq))

\* the term remote was matched in two casings and is listed twice
C15_BothCasings ==
    /\ IsCompanyCall
    /\ text = "Remote remote "
    /\ result.employment_type \in {Some("Remote, remote"), Some("remote, Remote")}

\* the level words of the claim, in the claimed order of their patterns
ClaimedLevels ==
    << {"senior", "sr"}, {"junior", "jr"}, {"lead", "principal", "staff"},
       {"entry-level", "intern"}, {"mid-level", "intermediate"} >>

\* the k-th pattern of the list is the pattern of the k-th group of words
OrderAsClaimed ==
    /\ Len(level_patterns) = Len(ClaimedLevels)
    /\ \A k \in 1..Len(ClaimedLevels) : \A word \in ClaimedLevels[k] :
          \A j \in 1..Len(level_patterns) :
             Search(level_patterns[j].re, word, level_patterns[j].ic).ok <=> j = k

\* the patterns of the level list that match somewhere in t
LevelsMatching(t) ==
    {k \in 1..Len(level_patterns) : Search(level_patterns[k].re, t, level_patterns[k].ic).ok}

\* group 1 of the leftmost match of the k-th level pattern, lower-cased
LevelMatched(t, k) ==
    StrLower(Group(t, Search(level_patterns[k].re, t, level_patterns[k].ic), 1))

StartsWith(t, prefix) == Len(t) >= Len(prefix) /\ SubSeq(t, 1, Len(prefix)) = prefix

\* C16: job_level is the lower-cased match of the first pattern, in the order
\* senior|sr, junior|jr, lead|principal|staff, entry-level|intern,
\* mid-level|intermediate, that matches anywhere in the text, whatever the
\* position of the words in the text; it is null when none matches; a text
\* whose first line is "Senior Software Engineer" has job_level "senior"
C16_JobLevel ==
    /\ OrderAsClaimed
    /\ IsCompanyCall =>
          /\ IF LevelsMatching(text) = {}
             THEN result.job_level = None
             ELSE result.job_level = Some(LevelMatched(text, SetMin(LevelsMatching(text))))
          /\ StartsWith(text, "Senior Software Engineer\n") => result.job_level = Some("senior")

\* a word of the third pattern stands before the word of the first pattern
C16_Witness ==
    /\ IsCompanyCall
    /\ text = "staff Senior Software Engineer\n"
    /\ result.job_level = Some("senior")

\* the first line of the text is the title line of the example
C16_WitnessFirstLine ==
    /\ IsCompanyCall
    /\ text = "Senior Software Engineer\nintern "
    /\ result.job_level = Some("senior")
    /\ result.job_title = Some("Senior Software Engineer")

\* no level word in the text
C16_WitnessNone ==
    /\ IsCompanyCall
    /\ text = "Remote x "
    /\ result.job_level = None

(***************************************************************************)
(* Order and duplicates of the classified lists                            *)
(***************************************************************************)
\* the items of seq at the positions of the set at, in the order of seq
Selected(seq, at) ==
    [k \in 1..Cardinality(at) |-> seq[CHOOSE i \in at : Cardinality({j \in at : j <= i}) = k]]

\* seq without the later occurrences of a repeated item
FirstOccurrences(seq) ==
    Selected(seq, {i \in 1..Len(seq) : \A j \in 1..(i - 1) : seq[j] # seq[i]})

\* the requirement line is classified nice-to-have: it holds a nice-to-have
\* indicator and no must-have indicator
ClassifiedNice(req) == is_nice_to_have(req) /\ ~is_must_have(req)

\* the lines of reqs classified nice-to-have, and the other lines, in input order
NiceLines(reqs) == Selected(reqs, {i \in 1..Len(reqs) : ClassifiedNice(reqs[i])})
MustLines(reqs) == Selected(reqs, {i \in 1..Len(reqs) : ~ClassifiedNice(reqs[i])})

\* C17: nice_to_have is every explicit nice-to-have item verbatim in input
\* order, followed by the requirement lines classified nice-to-have in input
\* order; must_have is the requirement lines classified must-have in input
\* order; each list holds no duplicates, the first occurrence of a repeated
\* string being the one kept
C17_ListOrder ==
    IsClassifyCall =>
        /\ result.nice_to_have = FirstOccurrences(nice_to_have \o NiceLines(requirements))
        /\ result.must_have = FirstOccurrences(MustLines(requirements))
        /\ NoDuplicates(result.nice_to_have)
        /\ NoDuplicates(result.must_have)

\* an explicit item with a must-have indicator stays first in nice_to_have,
\* and the classified line that repeats the second explicit item is dropped
C17_Witness ==
    /\ IsClassifyCall
    /\ nice_to_have = <<"Degree preferred", "React is a plus">>
    /\ requirements = <<"React is a plus", "Degree preferred">>
    /\ result.nice_to_have = <<"Degree preferred", "React is a plus">>
    /\ result.must_have = <<"Degree preferred">>

\* a repeated line between two other items: its first occurrence is kept
C17_WitnessRepeated ==
    /\ IsClassifyCall
    /\ nice_to_have = <<"React is a plus", "Team player">>
    /\ requirements = <<"React is a plus", "React is a plus">>
    /\ result.nice_to_have = <<"React is a plus", "Team player">>
    /\ result.must_have = <<>>

(***************************************************************************)
(* Calls of ResumeParser._extract_experience                               *)
(***************************************************************************)
\* inputs: an entry of 20 characters, an entry of 19 characters, characters
\* that lengthen an entry, white space that trimming removes, and the start
\* of a second entry
MaxEntryFrags == 2
EntryFragments ==
    {"Developer at Acme Co", "Engineer at Acme Co", ".", "x", " ", "\n",
     "\nDev, Acme 2019 - 2021", "\n2020 - present"}
EntryTexts == Concats(EntryFragments, MaxEntryFrags)

ResumeExtractExperience ==
    /\ pc = "call"
    /\ pc' = "done"
    /\ op' = "ResumeParser._extract_experience"
    /\ result' = ResumeParser_extract_experience(text)
    /\ UNCHANGED <<text, requirements, nice_to_have, file, log, self, frames>>

InitExperience == InitArgs(EntryTexts, {<<>>}, {<<>>})

NextExperience == ResumeExtractExperience

SpecExperience == InitExperience /\ [][NextExperience]_vars

IsExperienceCall == pc = "done" /\ op = "ResumeParser._extract_experience"

\* the candidate entries of t: the pieces between the line breaks that stand
\* before a capital letter followed by a comma or by a four-digit number
Candidates(t) == ReSplit(job_entry_pattern, t, FALSE)

\* the trimmed candidates of at least least characters, in the order of t
CandidatesOfLength(t, least) ==
    LET entries == Candidates(t)
        long == Selected(entries, {i \in 1..Len(entries) : Len(Strip(entries[i])) >= least})
    IN  [k \in 1..Len(long) |-> Strip(long[k])]

RawTexts(records) == [k \in 1..Len(records) |-> records[k].raw_text]

\* C18: _extract_experience discards a candidate entry exactly when its
\* trimmed length is below 20 characters, so the records returned are those
\* of the candidates of 20 characters or more; every record has company null
C18_LengthFilter ==
    IsExperienceCall =>
        /\ RawTexts(result) = CandidatesOfLength(text, 20)
        /\ \A k \in 1..Len(result) : result[k].company = None

\* an entry of exactly 20 characters yields no record
C18_TwentyDiscarded ==
    /\ IsExperienceCall
    /\ text = "Developer at Acme Co"
    /\ Len(Strip(text)) = 20
    /\ result = <<>>

\* an entry of 21 characters yields a record, without a company
C18_TwentyOneKept ==
    /\ IsExperienceCall
    /\ text = "Developer at Acme Co."
    /\ Len(result) = 1
    /\ result[1].raw_text = text
    /\ result[1].company = None

(***************************************************************************)
(* parse_text on resumes with experience and education sections            *)
(***************************************************************************)
\* inputs: an experience section with a first entry, a description line and
\* a second entry, an education section with a first entry, a second
\* education entry, a section with an entry too short to keep, a skills
\* section, and text with no header
MaxResumeFrags == 2
ResumeFragments ==
    {"Experience\nDev at Acme, 2019 - 2021\n", "built billing\nQA at Beta, 2015 - 2018\n",
     "Education\nBSc degree, MIT 2014\n", "MA degree, Yale 2016\n", "Experience: none\n",
     "Skills: SQL\n", "x "}
ResumeTexts == Concats(ResumeFragments, MaxResumeFrags)

InitResume == InitArgs(ResumeTexts, {<<>>}, {<<>>})

NextResume == ParseText

SpecResume == InitResume /\ [][NextResume]_vars

\* C19: parse_text normalizes the text, which leaves no newline in it, before
\* it segments it and before the experience and education sections are split
\* at line boundaries; so the experience list and the education list it
\* returns hold at most one entry each, and an experience entry has its
\* whole raw_text as title and an empty description
C19_SingleEntry ==
    IsResumeParse =>
        /\ ~Contains("\n", result.cleaned_text)
        /\ Len(result.experience) <= 1
        /\ Len(result.education) <= 1
        /\ \A k \in 1..Len(result.experience) :
              /\ result.experience[k].title = result.experience[k].raw_text
              /\ result.experience[k].description = ""

\* a resume with two experience entries and a description line between them
\* gives one entry that holds them all
C19_Witness ==
    /\ IsResumeParse
    /\ text = "Experience\nDev at Acme, 2019 - 2021\nbuilt billing\nQA at Beta, 2015 - 2018\n"
    /\ Len(result.experience) = 1
    /\ result.experience[1].raw_text = "Dev at Acme, 2019 - 2021 built billing QA at Beta, 2015 - 2018"
    /\ result.experience[1].title = result.experience[1].raw_text
    /\ result.experience[1].description = ""

\* a resume with two education entries gives one entry that holds both
C19_WitnessEducation ==
    /\ IsResumeParse
    /\ text = "Education\nBSc degree, MIT 2014\nMA degree, Yale 2016\n"
    /\ Len(result.education) = 1
    /\ result.education[1].raw_text = "BSc degree, MIT 2014 MA degree, Yale 2016"

====
